---- MODULE Spec2Model ----
(***************************************************************************)
(* A model of kingdb's Snapshot (src/interface/snapshot.h) and of the      *)
(* ByteArray family (src/byte_array.h).                                    *)
(*                                                                         *)
(* Seven state machines share the module, each with its own specification: *)
(*   SpecSnapshot  client threads calling the methods of one Snapshot,     *)
(*                 next to the live storage engine;                        *)
(*   SpecShared    views sharing one std::shared_ptr-held resource         *)
(*                 (SharedMmappedByteArray / SharedAllocatedByteArray);    *)
(*   SpecView      SetOffset and AddSize on one shared view;               *)
(*   SpecChunk     the setters and the streaming data_chunk() of one       *)
(*                 SharedMmappedByteArray (SpecChunkFair: its caller keeps *)
(*                 calling);                                               *)
(*   SpecExclusive the life of one AllocatedByteArray;                     *)
(*   SpecMmap      the construction of a SharedMmappedByteArray and of its *)
(*                 Mmap;                                                   *)
(*   SpecPrefix    StartsWith on a SimpleByteArray.                        *)
(* Under a specification the other machines rest in one fixed state.       *)
(***************************************************************************)
EXTENDS Integers, Sequences, FiniteSets, TLC

(***************************************************************************)
(* Bounds of the model.                                                    *)
(***************************************************************************)
NumThreads == 2     \* client threads sharing the Snapshot
MaxFiles == 2       \* files the live engine ever creates
MaxViews == 4       \* views that ever share one mapping or heap buffer
MaxRegion == 3      \* bytes of a mapping or heap buffer that views are set over
MaxAdds == 2        \* AddSize calls after a SetOffset
MaxFrames == 2      \* frames of a compressed value
SizeMod == 8        \* uint64_t arithmetic, scaled down: sizes wrap at SizeMod
CrcMod == 251       \* uint32_t checksums, scaled down: checksums wrap at CrcMod
MaxLen == 3         \* bytes of a caller-supplied byte sequence

Keys == {"ka", "kb"}
Paths == {"f1", "f2"}   \* file paths
SnapshotIds == {"s1", "s2"}
Bytes == {0, 1}
FrameLens == {1, 2}     \* the lengths of a frame
Adds == {-1, 1, 2}      \* the arguments of AddSize (an int)
Garbage == {0, 1}       \* the values an uninitialized member may hold
\* Caller-supplied byte sequences; byte 0 is the zero byte.
ByteSeqs == UNION {[1..n -> Bytes] : n \in 0..MaxLen}
\* The disk when the Snapshot is created: the keys of its files, oldest first.
InitFiles == {<<"ka">>, <<"ka", "kb">>}

(***************************************************************************)
(* Status (util/status.h).  A Status is modelled by the factory that built *)
(* it (its kind) and its message.  Snapshot and ByteArray build statuses   *)
(* with Status::OK, Status::Done and Status::IOError only.                 *)
(***************************************************************************)
Status(code, msg) == [code |-> code, msg |-> msg]
StatusOK == Status("OK", "")
StatusDone == Status("Done", "")
StatusNotFound == Status("NotFound", "")
StatusIOError(msg) == Status("IOError", msg)
IsOK(s) == s.code = "OK"
IsDone(s) == s.code = "Done"
IsNotFound(s) == s.code = "NotFound"

NoValue == 0
NoStatus == Status("none", "")

VARIABLES
  \* ---- Snapshot's members (snapshot.h:97-104)
  is_closed_,      \* bool is_closed_
  mutex_close_,    \* std::mutex mutex_close_: whether a thread holds it
  snapshot_id_,    \* uint32_t snapshot_id_
  F0,              \* *fileids_iterator_ : the file ids captured at creation,
                   \* also the file set the frozen engine was opened over
  fidsDeletes,     \* how many times `delete fileids_iterator_` ran
  seDeletes,       \* how many times `delete se_readonly_` ran
  \* ---- the live engine (se_live_) and the disk
  files,           \* files[i] is the key stored by file i (its value is version i)
  liveFiles,       \* the file ids of the live engine's current file set
  onDisk,          \* the file ids not yet reclaimed
  registry,        \* registered snapshot id -> the files it pins
  released,        \* the ids ReleaseSnapshot() was called with, in order
  \* ---- client threads
  at,              \* position -> how many threads stand there ("idle", or a
                   \* line inside Close or Get, with the key of the Get)
  last,            \* the call that returned (or, for Close, was entered) last:
                   \* its method, key and result (for Get, also what the engine
                   \* it called had returned to it)
  iterators,       \* the Iterators NewIterator handed out
  dtorStarted,     \* ~Snapshot() has been entered
  closeReturns     \* the Close() calls that have returned: "none", "one", "several"

VARIABLES
  \* ---- views sharing one std::shared_ptr-held resource (byte_array.h:143,197,226,251)
  shKind,          \* "mmap" (shared_ptr<Mmap>) or "heap" (shared_ptr<char>)
  holder,          \* view -> "none" (not constructed), "alive", "last" (being
                   \* destroyed, its decrement reached zero: it runs the
                   \* deleter), "released" (destroyed, ran the deleter) or
                   \* "dead" (destroyed)
  use_count,       \* the shared_ptr control block's use count
  munmaps,         \* munmap() calls made by ~Mmap
  closes,          \* close() calls made by ~Mmap
  arrayDeletes     \* delete[] calls made by the heap buffer's deleter

shVars == <<shKind, holder, use_count, munmaps, closes, arrayDeletes>>

VARIABLES
  \* ---- one shared view (SharedMmappedByteArray / SharedAllocatedByteArray)
  variant,         \* "mmap" or "heap"
  region,          \* the bytes of the mapping (mmap_->datafile_) or of the buffer
  data_,           \* char* data_, as an offset from the start of region
  size_,           \* uint64_t size_
  offset_,         \* uint64_t offset_
  size_compressed_,\* uint64_t size_compressed_
  crc32_value_,    \* uint32_t crc32_value_
  is_compressed_,  \* bool is_compressed_
  compressor_,     \* CompressorLZ4 compressor_: the frames it has decoded
  crc32_,          \* CRC32 crc32_: the running checksum
  stored,          \* the frames of the value as the mapping holds them
  original,        \* the frames of the value as they were written
  out,             \* what the last data_chunk() returned, and by which branch
  fed,             \* the frames streamed into crc32_ so far, in order
  delivered,       \* the decoded bytes handed out so far
  lastSet          \* the last SetOffset's arguments, and the AddSize calls since

baVars == <<variant, region, data_, size_, offset_, size_compressed_, crc32_value_,
            is_compressed_, compressor_, crc32_, stored, original, out, fed,
            delivered, lastSet>>

snapVars == <<is_closed_, mutex_close_, snapshot_id_, F0, fidsDeletes, seDeletes,
              files, liveFiles, onDisk, registry, released,
              at, last, iterators, dtorStarted, closeReturns>>

\* What a Snapshot owns or reaches: everything but the threads' bookkeeping.
snapState == <<is_closed_, mutex_close_, snapshot_id_, F0, fidsDeletes, seDeletes,
               files, liveFiles, onDisk, registry, released, iterators>>

VARIABLES
  \* ---- one AllocatedByteArray (byte_array.h:202-218)
  heap_ctor,       \* the constructor that built it: "copy" or "capacity"
  heap_in,         \* the bytes the caller supplied: data_in, then what it wrote
  heap_data_,      \* the bytes of the array data_ points to
  heap_size_,      \* size_
  heap_alive,      \* the object has not been destroyed
  heap_deletes     \* delete[] calls on the array

exVars == <<heap_ctor, heap_in, heap_data_, heap_size_, heap_alive, heap_deletes>>

VARIABLES
  \* ---- the construction of one SharedMmappedByteArray and of its Mmap
  \*      (byte_array.h:101-124, 142-148)
  mmapAt,          \* where the constructing thread stands: a line of Mmap::Mmap
                   \* or of the view's constructor, "constructed" or "exited"
  filepath_,       \* std::string filepath_
  filesize_,       \* int filesize_
  fd_,             \* int fd_
  datafile_,       \* char *datafile_: "unset", "MAP_FAILED" or "mapped"
  openable,        \* the paths open() succeeds on
  view_data_,      \* the view's data_: "nullptr", or what datafile_ held
  readFrom         \* what the view's bytes were read from: "none", or data_

mmVars == <<mmapAt, filepath_, filesize_, fd_, datafile_, openable, view_data_,
            readFrom>>

VARIABLES
  \* ---- one SimpleByteArray (byte_array.h:84-93) and its StartsWith calls
  simple_data_,    \* the bytes data_ points to
  simple_size_,    \* size_
  startsWith       \* the last StartsWith call: its arguments and its result

swVars == <<simple_data_, simple_size_, startsWith>>

moreVars == <<exVars, mmVars, swVars>>

vars == <<snapVars, shVars, baVars, moreVars>>

(***************************************************************************)
(* The storage engine, modelled from the interface the Snapshot consumes:  *)
(* Get(key) and ReleaseSnapshot(id).  An engine opened over the file set S *)
(* answers Get(key) from the newest file of S that holds the key.  File i  *)
(* stores version i of its key.                                            *)
(***************************************************************************)
Holding(S, key) == {f \in S \cap onDisk : files[f] = key}
Newest(S) == CHOOSE f \in S : \A g \in S : g <= f
SE_Get(S, key) ==
  IF Holding(S, key) = {}
    THEN [st |-> StatusNotFound, val |-> NoValue]
    ELSE [st |-> StatusOK, val |-> Newest(Holding(S, key))]
\* Every answer an engine over S may give: the lookup, or an engine error.
SE_GetOutcomes(S, key) ==
  {SE_Get(S, key), [st |-> StatusIOError("engine"), val |-> NoValue]}
\* What a call through a pointer to a deleted engine may also answer.
SE_GetDangling == {[st |-> Status("garbage", ""), val |-> NoValue]}
EngineFiles(engine) == IF engine = "se_readonly_" THEN F0 ELSE liveFiles
\* ReleaseSnapshot(id): the id leaves the registry, and with it its pins.
SE_ReleaseSnapshot(id) == [i \in DOMAIN registry \ {id} |-> registry[i]]
Pinned(f) == \E id \in DOMAIN registry : f \in registry[id]

\* Put/Write on the live engine: a new file, holding a new version of the key.
LiveWrite(key) ==
  /\ Len(files) < MaxFiles
  /\ files' = Append(files, key)
  /\ liveFiles' = liveFiles \cup {Len(files) + 1}
  /\ onDisk' = onDisk \cup {Len(files) + 1}
  /\ UNCHANGED <<is_closed_, mutex_close_, snapshot_id_, F0, fidsDeletes, seDeletes,
                 registry, released, at, last, iterators, dtorStarted, closeReturns>>
  /\ UNCHANGED <<shVars, baVars, moreVars>>

\* Compaction: a live file superseded by a newer live file of the same key
\* leaves the live file set.
LiveCompact(f) ==
  /\ f \in liveFiles
  /\ \E g \in liveFiles : g > f /\ files[g] = files[f]
  /\ liveFiles' = liveFiles \ {f}
  /\ UNCHANGED <<is_closed_, mutex_close_, snapshot_id_, F0, fidsDeletes, seDeletes,
                 files, onDisk, registry, released, at, last, iterators,
                 dtorStarted, closeReturns>>
  /\ UNCHANGED <<shVars, baVars, moreVars>>

\* Reclamation: a file no longer live and pinned by no registered snapshot
\* is removed from disk.
LiveReclaim(f) ==
  /\ f \in onDisk \ liveFiles
  /\ ~Pinned(f)
  /\ onDisk' = onDisk \ {f}
  /\ UNCHANGED <<is_closed_, mutex_close_, snapshot_id_, F0, fidsDeletes, seDeletes,
                 files, liveFiles, registry, released, at, last, iterators,
                 dtorStarted, closeReturns>>
  /\ UNCHANGED <<shVars, baVars, moreVars>>

(***************************************************************************)
(* Snapshot (snapshot.h).  NumThreads client threads share the Snapshot;   *)
(* each calls one method at a time.  The threads are interchangeable, so   *)
(* the state keeps how many of them stand at each position, not which.     *)
(* Close and Get take several steps, so that other threads interleave with *)
(* them; the other methods read or write nothing shared and are single     *)
(* steps.                                                                  *)
(***************************************************************************)
Idle == <<"idle", "none">>
At(label) == <<label, "none">>
InGet(key) == <<"Get56", key>>
Positions == {Idle, At("Close47"), At("Close50"), At("Close51"), At("Close52")}
             \cup {InGet(k) : k \in Keys}

\* One thread moves from position `from` to position `to`.
Move(from, to) ==
  /\ at[from] > 0
  /\ at' = [at EXCEPT ![from] = @ - 1, ![to] = @ + 1]

Ret(st, val) == [st |-> st, val |-> val, engine |-> "none",
                 seSt |-> NoStatus, seVal |-> NoValue]
NoRet == Ret(NoStatus, NoValue)
\* The record of a call; for Get, also whether the Snapshot was still Open
\* when it returned.
Call(name, key, r) ==
  [op |-> name, key |-> key, ret |-> r, open |-> (name = "Get" => ~is_closed_)]

OneMore(n) == IF n = "none" THEN "one" ELSE "several"

\* A client may call a method while the object has not begun to be destroyed.
CanCall == at[Idle] > 0 /\ ~dtorStarted

\* Mutant of Open: Open() reopens a Closed snapshot.
Open_Reopens ==
  /\ CanCall
  /\ is_closed_' = FALSE
  /\ last' = Call("Open", "none", Ret(StatusOK, NoValue))
  /\ UNCHANGED <<mutex_close_, snapshot_id_, F0, fidsDeletes, seDeletes, files,
                 liveFiles, onDisk, registry, released, iterators, at, dtorStarted,
                 closeReturns>>
  /\ UNCHANGED <<shVars, baVars, moreVars>>

\* Status Open(): return Status::OK()
Open ==
  /\ CanCall
  /\ last' = Call("Open", "none", Ret(StatusOK, NoValue))
  /\ UNCHANGED <<snapState, at, dtorStarted, closeReturns>>
  /\ UNCHANGED <<shVars, baVars, moreVars>>

\* Mutant of Put: the write is forwarded to the live engine.
Put_Forwards(key) ==
  /\ CanCall
  /\ Len(files) < MaxFiles
  /\ files' = Append(files, key)
  /\ liveFiles' = liveFiles \cup {Len(files) + 1}
  /\ onDisk' = onDisk \cup {Len(files) + 1}
  /\ last' = Call("Put", "none", Ret(StatusOK, NoValue))
  /\ UNCHANGED <<is_closed_, mutex_close_, snapshot_id_, F0, fidsDeletes, seDeletes,
                 registry, released, at, iterators, dtorStarted, closeReturns>>
  /\ UNCHANGED <<shVars, baVars, moreVars>>

\* Status Put(write_options, key, chunk): return Status::IOError("Not supported")
Put(key) ==
  /\ CanCall
  /\ last' = Call("Put", "none", Ret(StatusIOError("Not supported"), NoValue))
  /\ UNCHANGED <<snapState, at, dtorStarted, closeReturns>>
  /\ UNCHANGED <<shVars, baVars, moreVars>>

\* Status PutChunk(write_options, key, chunk, offset_chunk, size_value)
PutChunk(key) ==
  /\ CanCall
  /\ last' = Call("PutChunk", "none", Ret(StatusIOError("Not supported"), NoValue))
  /\ UNCHANGED <<snapState, at, dtorStarted, closeReturns>>
  /\ UNCHANGED <<shVars, baVars, moreVars>>

\* Status Remove(write_options, key)
Remove(key) ==
  /\ CanCall
  /\ last' = Call("Remove", "none", Ret(StatusIOError("Not supported"), NoValue))
  /\ UNCHANGED <<snapState, at, dtorStarted, closeReturns>>
  /\ UNCHANGED <<shVars, baVars, moreVars>>

\* Interface* NewSnapshot(): return nullptr
NewSnapshot ==
  /\ CanCall
  /\ last' = Call("NewSnapshot", "none", NoRet)
  /\ UNCHANGED <<snapState, at, dtorStarted, closeReturns>>
  /\ UNCHANGED <<shVars, baVars, moreVars>>

\* Iterator* NewIterator(read_options):
\*   new Iterator(read_options, se_readonly_, fileids_iterator_)
\* The Iterator keeps the two pointers it is given.
IteratorOver(engine, fileids) ==
  /\ iterators' = iterators \cup
       {[se |-> engine, fileids |-> fileids, open |-> ~is_closed_]}
  /\ UNCHANGED <<is_closed_, mutex_close_, snapshot_id_, F0, fidsDeletes, seDeletes,
                 files, liveFiles, onDisk, registry, released>>

\* Mutant of NewIterator: the Iterator is built over the live engine.
NewIterator_Live ==
  /\ CanCall
  /\ IteratorOver("se_live_", "live file ids")
  /\ last' = Call("NewIterator", "none", NoRet)
  /\ UNCHANGED <<at, dtorStarted, closeReturns>>
  /\ UNCHANGED <<shVars, baVars, moreVars>>

NewIterator ==
  /\ CanCall
  /\ IteratorOver("se_readonly_", "fileids_iterator_")
  /\ last' = Call("NewIterator", "none", NoRet)
  /\ UNCHANGED <<at, dtorStarted, closeReturns>>
  /\ UNCHANGED <<shVars, baVars, moreVars>>

\* Get, line 56: the call enters se_readonly_->Get(key, value_out).
GetCall(key) ==
  /\ CanCall
  /\ Move(Idle, InGet(key))
  /\ UNCHANGED <<snapState, last, dtorStarted, closeReturns>>
  /\ UNCHANGED <<shVars, baVars, moreVars>>

\* Get, lines 56-68: the engine's Get returns s; every branch returns s.
\* If the engine was deleted before its Get returned, the call ran on freed
\* memory: it may answer as the engine would have, or with garbage.
GetFrom(key, engine) ==
  /\ Move(InGet(key), Idle)
  /\ \E s \in (IF engine = "se_readonly_" /\ seDeletes > 0
                 THEN SE_GetOutcomes(EngineFiles(engine), key) \cup SE_GetDangling
                 ELSE SE_GetOutcomes(EngineFiles(engine), key)) :
       last' = Call("Get", key,
                    [st |-> IF IsNotFound(s.st) THEN s.st
                            ELSE IF IsOK(s.st) THEN s.st ELSE s.st,
                     val |-> s.val, engine |-> engine,
                     seSt |-> s.st, seVal |-> s.val])
  /\ UNCHANGED <<snapState, dtorStarted, closeReturns>>
  /\ UNCHANGED <<shVars, baVars, moreVars>>

\* Mutant of GetReturn: the read is served by the live engine.
GetReturn_Live(key) == GetFrom(key, "se_live_")

GetReturn(key) == GetFrom(key, "se_readonly_")

\* void Close(), entered by a client call.
CloseCall ==
  /\ CanCall
  /\ Move(Idle, At("Close47"))
  /\ UNCHANGED <<snapState, last, dtorStarted, closeReturns>>
  /\ UNCHANGED <<shVars, baVars, moreVars>>

\* ~Snapshot(): log, then Close().  An object is destroyed once.  Close()
\* calls entered before may still be on their way to the lock; the threads
\* being interchangeable, the behaviours are those in which the destructor's
\* Close() is the last of them to take the lock.  (A Close() that reaches the
\* lock after the destructor has finished runs on a destroyed object.)
Destructor ==
  /\ CanCall
  /\ dtorStarted' = TRUE
  /\ Move(Idle, At("Close47"))
  /\ UNCHANGED <<snapState, last, closeReturns>>
  /\ UNCHANGED <<shVars, baVars, moreVars>>

\* lines 47-49: std::unique_lock<std::mutex> lock(mutex_close_);
\*              if (is_closed_) return;  is_closed_ = true;
\* is_closed_ is read and written under the lock only, so taking the lock,
\* the test and the assignment are one step.  An early return releases the
\* lock at once; otherwise the thread goes on holding it.
LockAndTest(locked, closed) ==
  /\ ~locked
  /\ IF closed
       THEN /\ Move(At("Close47"), Idle)
            /\ last' = Call("Close", "none", NoRet)
            /\ closeReturns' = OneMore(closeReturns)
            /\ UNCHANGED <<mutex_close_, is_closed_>>
       ELSE /\ Move(At("Close47"), At("Close50"))
            /\ mutex_close_' = TRUE
            /\ is_closed_' = TRUE
            /\ UNCHANGED <<last, closeReturns>>
  /\ UNCHANGED <<snapshot_id_, F0, fidsDeletes, seDeletes, files,
                 liveFiles, onDisk, registry, released, iterators, dtorStarted>>
  /\ UNCHANGED <<shVars, baVars, moreVars>>

\* Mutant of Close47: the is_closed_ test is missing.
Close47_NoTest == LockAndTest(mutex_close_, FALSE)

Close47 == LockAndTest(mutex_close_, is_closed_)

\* line 50: delete fileids_iterator_
Close50 ==
  /\ Move(At("Close50"), At("Close51"))
  /\ fidsDeletes' = fidsDeletes + 1
  /\ UNCHANGED <<is_closed_, mutex_close_, snapshot_id_, F0, seDeletes, files,
                 liveFiles, onDisk, registry, released, last, iterators,
                 dtorStarted, closeReturns>>
  /\ UNCHANGED <<shVars, baVars, moreVars>>

\* line 51: se_live_->ReleaseSnapshot(snapshot_id_)
ReleaseCall(id) ==
  /\ Move(At("Close51"), At("Close52"))
  /\ registry' = SE_ReleaseSnapshot(id)
  /\ released' = Append(released, id)
  /\ UNCHANGED <<is_closed_, mutex_close_, snapshot_id_, F0, fidsDeletes, seDeletes,
                 files, liveFiles, onDisk, last, iterators, dtorStarted,
                 closeReturns>>
  /\ UNCHANGED <<shVars, baVars, moreVars>>

\* Mutant of Close51: the snapshot id is never released.
Close51_NoRelease ==
  /\ Move(At("Close51"), At("Close52"))
  /\ UNCHANGED <<snapState, last, dtorStarted, closeReturns>>
  /\ UNCHANGED <<shVars, baVars, moreVars>>

Close51 == ReleaseCall(snapshot_id_)

\* line 52: delete se_readonly_; then the scope ends: unlock, return.
Close52 ==
  /\ Move(At("Close52"), Idle)
  /\ seDeletes' = seDeletes + 1
  /\ mutex_close_' = FALSE
  /\ last' = Call("Close", "none", NoRet)
  /\ closeReturns' = OneMore(closeReturns)
  /\ UNCHANGED <<is_closed_, snapshot_id_, F0, fidsDeletes, files,
                 liveFiles, onDisk, registry, released, iterators, dtorStarted>>
  /\ UNCHANGED <<shVars, baVars, moreVars>>

(***************************************************************************)
(* Shared ownership (byte_array.h).  A SharedMmappedByteArray holds its    *)
(* mapping in std::shared_ptr<Mmap> mmap_, a SharedAllocatedByteArray its  *)
(* buffer in std::shared_ptr<char> data_allocated_ with a delete[]         *)
(* deleter.  Copying a view copies the shared_ptr; destroying a view       *)
(* destroys it.  Views are destroyed by different threads, so a            *)
(* destruction is two steps: the atomic decrement of the use count, and,   *)
(* for the view whose decrement reached zero, the deleter.                 *)
(***************************************************************************)
Views == 1..MaxViews

\* SharedMmappedByteArray(filepath, filesize): mmap_ = shared_ptr<Mmap>(new Mmap)
\* SharedAllocatedByteArray(size_in): data_allocated_ = shared_ptr<char>(new char[])
SharedCtor(kind) ==
  /\ shKind = kind
  /\ holder = [v \in Views |-> IF v = 1 THEN "alive" ELSE "none"]
  /\ use_count = 1
  /\ munmaps = 0
  /\ closes = 0
  /\ arrayDeletes = 0

\* The implicit copy constructor: view w becomes a copy of view v.
CopyView(v, w) ==
  /\ holder[v] = "alive"
  /\ holder[w] = "none"
  /\ holder' = [holder EXCEPT ![w] = "alive"]
  /\ use_count' = use_count + 1
  /\ UNCHANGED <<shKind, munmaps, closes, arrayDeletes>>
  /\ UNCHANGED <<snapVars, baVars, moreVars>>

\* The destructor of view v destroys its shared_ptr member: the use count is
\* decremented atomically, and the view that brings it to `floor` owns the
\* release.
DropTo(v, floor) ==
  /\ holder[v] = "alive"
  /\ use_count' = use_count - 1
  /\ holder' = [holder EXCEPT ![v] = IF use_count - 1 <= floor THEN "last" ELSE "dead"]
  /\ UNCHANGED <<shKind, munmaps, closes, arrayDeletes>>
  /\ UNCHANGED <<snapVars, baVars, moreVars>>

\* Mutant of DropRef: the release is run one holder too early.
DropRef_Early(v) == DropTo(v, 1)

DropRef(v) == DropTo(v, 0)

\* ~Mmap() (lines 126-130): munmap(datafile_, filesize_); close(fd_)
\* or the deleter of the heap buffer (lines 226, 232): delete[] p
RunDeleter(v) ==
  /\ holder[v] = "last"
  /\ holder' = [holder EXCEPT ![v] = "released"]
  /\ IF shKind = "mmap"
       THEN /\ munmaps' = munmaps + 1
            /\ closes' = closes + 1
            /\ UNCHANGED arrayDeletes
       ELSE /\ arrayDeletes' = arrayDeletes + 1
            /\ UNCHANGED <<munmaps, closes>>
  /\ UNCHANGED <<shKind, use_count>>
  /\ UNCHANGED <<snapVars, baVars, moreVars>>

(***************************************************************************)
(* One shared view (byte_array.h).  Pointers into the mapping or buffer    *)
(* are offsets from its start.                                             *)
(***************************************************************************)
NoOut == [st |-> NoStatus, where |-> "null", ptr |-> 0, size |-> 0,
          bytes |-> <<>>, cause |-> "none"]
NoSet == [set |-> FALSE, k |-> 0, n |-> 0, added |-> 0, count |-> 0]

\* The compression codec and the checksum (compressor.h, crc32c.h), modelled
\* from the interface data_chunk() consumes.  A frame decodes to as many
\* bytes, each the complement of the stored byte; the checksum is a
\* polynomial hash.
Decode(frame) == [i \in 1..Len(frame) |-> 1 - frame[i]]
RECURSIVE CrcStream(_, _)
CrcStream(acc, bytes) ==
  IF bytes = <<>> THEN acc
  ELSE CrcStream((acc * 5 + Head(bytes) + 1) % CrcMod, Tail(bytes))
CrcReset == 0
RECURSIVE Flatten(_)
Flatten(frames) ==
  IF frames = <<>> THEN <<>> ELSE Head(frames) \o Flatten(Tail(frames))
RECURSIVE CrcOfFrames(_, _)
CrcOfFrames(acc, frames) ==
  IF frames = <<>> THEN acc
  ELSE CrcOfFrames(CrcStream(acc, Head(frames)), Tail(frames))

\* SharedMmappedByteArray(filepath, filesize) (lines 142-148) over a mapping,
\* or SharedAllocatedByteArray(data, size_in) (lines 225-229) over a buffer.
\* ByteArray() sets data_, size_ and is_compressed_; size_compressed_,
\* crc32_value_ and offset_ are left uninitialized.
ViewCtor(kind, bytes, frames, written, sc, crc, off) ==
  /\ variant = kind
  /\ region = bytes
  /\ data_ = 0
  /\ size_ = IF kind = "mmap" THEN 0 ELSE Len(bytes)
  /\ offset_ = off
  /\ size_compressed_ = sc
  /\ crc32_value_ = crc
  /\ is_compressed_ = FALSE
  /\ compressor_ = 0
  /\ crc32_ = CrcReset
  /\ stored = frames
  /\ original = written
  /\ out = NoOut
  /\ fed = <<>>
  /\ delivered = <<>>
  /\ lastSet = NoSet

\* void SetOffset(uint64_t offset, uint64_t size):
\*   offset_ = offset; data_ = <start> + offset; size_ = size;
\* <start> is mmap_->datafile_ (line 152) or data_allocated_.get() (line 242).
SetOffsetFrom(start, offset, size) ==
  /\ offset_' = offset
  /\ data_' = start + offset
  /\ size_' = size
  /\ lastSet' = [set |-> TRUE, k |-> offset, n |-> size, added |-> 0, count |-> 0]
  /\ UNCHANGED <<variant, region, size_compressed_, crc32_value_, is_compressed_,
                 compressor_, crc32_, stored, original, out, fed, delivered>>
  /\ UNCHANGED <<snapVars, shVars, moreVars>>

\* Mutant of SetOffset: the offset is added to the current data_.
SetOffset_Compounds(offset, size) == SetOffsetFrom(data_, offset, size)

SetOffset(offset, size) == SetOffsetFrom(0, offset, size)

\* void AddSize(int add): size_ += add   (lines 156-158, 246-248)
AddSize(add) ==
  /\ lastSet.count < MaxAdds
  /\ size_' = (size_ + add) % SizeMod
  /\ lastSet' = [lastSet EXCEPT !.added = @ + add, !.count = @ + 1]
  /\ UNCHANGED <<variant, region, data_, offset_, size_compressed_, crc32_value_,
                 is_compressed_, compressor_, crc32_, stored, original, out, fed,
                 delivered>>
  /\ UNCHANGED <<snapVars, shVars, moreVars>>

\* void SetCompression(bool c) { is_compressed_ = c; }
SetCompression(c) ==
  /\ out = NoOut
  /\ is_compressed_' = c
  /\ UNCHANGED <<variant, region, data_, size_, offset_, size_compressed_,
                 crc32_value_, compressor_, crc32_, stored, original, out, fed,
                 delivered, lastSet>>
  /\ UNCHANGED <<snapVars, shVars, moreVars>>

\* Mutant of SetSizeCompressed: the compressed size is stored as the size.
SetSizeCompressed_Size(s) ==
  /\ out = NoOut
  /\ size_compressed_' = s
  /\ size_' = s
  /\ UNCHANGED <<variant, region, data_, offset_, crc32_value_,
                 is_compressed_, compressor_, crc32_, stored, original, out, fed,
                 delivered, lastSet>>
  /\ UNCHANGED <<snapVars, shVars, moreVars>>

\* void SetSizeCompressed(uint64_t s) { size_compressed_ = s; }
SetSizeCompressed(s) ==
  /\ out = NoOut
  /\ size_compressed_' = s
  /\ UNCHANGED <<variant, region, data_, size_, offset_, crc32_value_,
                 is_compressed_, compressor_, crc32_, stored, original, out, fed,
                 delivered, lastSet>>
  /\ UNCHANGED <<snapVars, shVars, moreVars>>

\* void SetCRC32(uint64_t c) { crc32_value_ = c; }   (crc32_value_ is a uint32_t)
SetCRC32(c) ==
  /\ out = NoOut
  /\ crc32_value_' = c % CrcMod
  /\ UNCHANGED <<variant, region, data_, size_, offset_, size_compressed_,
                 is_compressed_, compressor_, crc32_, stored, original, out, fed,
                 delivered, lastSet>>
  /\ UNCHANGED <<snapVars, shVars, moreVars>>

\* compressor_.Uncompress(data_, size_compressed_, data_out, size_out, &frame,
\* &size_frame), modelled from its interface: one call decodes one frame.
\* The codec has consumed the frames before position compressor_.  It
\* reports Done when it has consumed size_compressed_ bytes; otherwise it
\* decodes the next frame if that lies within size_compressed_ bytes, or
\* fails.
Consumed == Len(Flatten(SubSeq(stored, 1, compressor_)))
CodecFault == [st |-> StatusIOError("codec"), bytes |-> <<>>, frame |-> <<>>]
Uncompress ==
  IF Consumed = size_compressed_
    THEN {[st |-> StatusDone, bytes |-> <<>>, frame |-> <<>>]}
  ELSE IF /\ compressor_ < Len(stored)
          /\ Consumed + Len(stored[compressor_ + 1]) <= size_compressed_
    THEN {[st |-> StatusOK, bytes |-> Decode(stored[compressor_ + 1]),
           frame |-> stored[compressor_ + 1]],
          CodecFault}
  ELSE {CodecFault}

\* ByteArray::data_chunk (lines 69-73), which SharedAllocatedByteArray inherits.
BaseDataChunk ==
  /\ out' = [st |-> StatusDone, where |-> "region", ptr |-> data_, size |-> size_,
             bytes |-> <<>>, cause |-> "raw"]
  /\ UNCHANGED <<compressor_, crc32_, fed, delivered>>

\* Mutant of MmapDataChunk: the call that decodes the last frame reports Done
\* and hands nothing out.
MmapDataChunk_EarlyDone ==
  IF size_compressed_ = 0
    THEN /\ out' = [st |-> StatusDone, where |-> "region", ptr |-> data_,
                    size |-> size_, bytes |-> <<>>, cause |-> "raw"]
         /\ UNCHANGED <<compressor_, crc32_, fed, delivered>>
    ELSE \E r \in Uncompress :
           IF IsDone(r.st) /\ crc32_ # crc32_value_
             THEN /\ out' = [st |-> StatusIOError("Bad CRC32"), where |-> "null",
                             ptr |-> 0, size |-> 0, bytes |-> <<>>,
                             cause |-> "mismatch"]
                  /\ UNCHANGED <<compressor_, crc32_, fed, delivered>>
           ELSE IF ~IsOK(r.st)
             THEN /\ out' = [st |-> r.st, where |-> "null", ptr |-> 0, size |-> 0,
                             bytes |-> <<>>,
                             cause |-> IF IsDone(r.st) THEN "done" ELSE "codec"]
                  /\ UNCHANGED <<compressor_, crc32_, fed, delivered>>
           ELSE /\ compressor_' = compressor_ + 1
                /\ crc32_' = CrcStream(crc32_, r.frame)
                /\ fed' = Append(fed, r.frame)
                /\ IF compressor_ + 1 = Len(stored)
                     THEN /\ UNCHANGED delivered
                          /\ out' = [st |-> StatusDone, where |-> "null", ptr |-> 0,
                                     size |-> 0, bytes |-> <<>>, cause |-> "done"]
                     ELSE /\ delivered' = delivered \o r.bytes
                          /\ out' = [st |-> StatusOK, where |-> "heap", ptr |-> 0,
                                     size |-> Len(r.bytes), bytes |-> r.bytes,
                                     cause |-> "frame"]

\* Mutant of MmapDataChunk: the last frame is not streamed into the checksum.
MmapDataChunk_LastUnstreamed ==
  IF size_compressed_ = 0
    THEN /\ out' = [st |-> StatusDone, where |-> "region", ptr |-> data_,
                    size |-> size_, bytes |-> <<>>, cause |-> "raw"]
         /\ UNCHANGED <<compressor_, crc32_, fed, delivered>>
    ELSE \E r \in Uncompress :
           IF IsDone(r.st) /\ crc32_ # crc32_value_
             THEN /\ out' = [st |-> StatusIOError("Bad CRC32"), where |-> "null",
                             ptr |-> 0, size |-> 0, bytes |-> <<>>,
                             cause |-> "mismatch"]
                  /\ UNCHANGED <<compressor_, crc32_, fed, delivered>>
           ELSE IF ~IsOK(r.st)
             THEN /\ out' = [st |-> r.st, where |-> "null", ptr |-> 0, size |-> 0,
                             bytes |-> <<>>,
                             cause |-> IF IsDone(r.st) THEN "done" ELSE "codec"]
                  /\ UNCHANGED <<compressor_, crc32_, fed, delivered>>
           ELSE /\ compressor_' = compressor_ + 1
                /\ IF compressor_ + 1 = Len(stored)
                     THEN UNCHANGED <<crc32_, fed>>
                     ELSE /\ crc32_' = CrcStream(crc32_, r.frame)
                          /\ fed' = Append(fed, r.frame)
                /\ delivered' = delivered \o r.bytes
                /\ out' = [st |-> StatusOK, where |-> "heap", ptr |-> 0,
                           size |-> Len(r.bytes), bytes |-> r.bytes,
                           cause |-> "frame"]

\* SharedMmappedByteArray::data_chunk (lines 160-190).
MmapDataChunk ==
  IF size_compressed_ = 0
    THEN /\ out' = [st |-> StatusDone, where |-> "region", ptr |-> data_,
                    size |-> size_, bytes |-> <<>>, cause |-> "raw"]
         /\ UNCHANGED <<compressor_, crc32_, fed, delivered>>
    ELSE \E r \in Uncompress :
           IF IsDone(r.st) /\ crc32_ # crc32_value_
             THEN /\ out' = [st |-> StatusIOError("Bad CRC32"), where |-> "null",
                             ptr |-> 0, size |-> 0, bytes |-> <<>>,
                             cause |-> "mismatch"]
                  /\ UNCHANGED <<compressor_, crc32_, fed, delivered>>
           ELSE IF ~IsOK(r.st)
             THEN /\ out' = [st |-> r.st, where |-> "null", ptr |-> 0, size |-> 0,
                             bytes |-> <<>>,
                             cause |-> IF IsDone(r.st) THEN "done" ELSE "codec"]
                  /\ UNCHANGED <<compressor_, crc32_, fed, delivered>>
           ELSE /\ compressor_' = compressor_ + 1
                /\ crc32_' = CrcStream(crc32_, r.frame)
                /\ fed' = Append(fed, r.frame)
                /\ delivered' = delivered \o r.bytes
                /\ out' = [st |-> StatusOK, where |-> "heap", ptr |-> 0,
                           size |-> Len(r.bytes), bytes |-> r.bytes,
                           cause |-> "frame"]

\* virtual Status data_chunk(char **data_out, uint64_t *size_out)
data_chunk ==
  /\ IF variant = "mmap" THEN MmapDataChunk ELSE BaseDataChunk
  /\ UNCHANGED <<variant, region, data_, size_, offset_, size_compressed_,
                 crc32_value_, is_compressed_, stored, original, lastSet>>
  /\ UNCHANGED <<snapVars, shVars, moreVars>>

(***************************************************************************)
(* AllocatedByteArray (byte_array.h:202-218): a privately allocated array, *)
(* built as a copy of the caller's bytes or with a requested capacity for  *)
(* the caller to fill through data().                                      *)
(***************************************************************************)
Uninit == -1     \* a byte of a new char[] that nothing has written yet

\* strncpy(dest, src, n): the bytes of src up to its first zero byte are
\* copied, and zero bytes are written until n bytes have been written.
strncpy(src, n) ==
  LET zeros == {i \in 1..n : src[i] = 0}
      stop == IF zeros = {} THEN n + 1 ELSE CHOOSE i \in zeros : \A j \in zeros : i <= j
  IN [i \in 1..n |-> IF i < stop THEN src[i] ELSE 0]

\* delete[] data_
DeleteArray ==
  heap_deletes' = heap_deletes + 1

\* No AllocatedByteArray yet; the caller holds the bytes `bytes`.
NoAllocatedByteArray(bytes) ==
  /\ heap_ctor = "none"
  /\ heap_in = bytes
  /\ heap_size_ = 0
  /\ heap_data_ = <<>>
  /\ heap_alive = FALSE
  /\ heap_deletes = 0

\* AllocatedByteArray(const char* data_in, uint64_t size_in) (lines 204-208):
\*   size_ = size_in; data_ = new char[size_]; strncpy(data_, data_in, size_)
AllocatedByteArray_Copy(data_in, size_in) ==
  /\ heap_ctor = "none"
  /\ heap_ctor' = "copy"
  /\ heap_size_' = size_in
  /\ heap_data_' = strncpy(data_in, size_in)
  /\ heap_alive' = TRUE
  /\ UNCHANGED <<heap_in, heap_deletes>>
  /\ UNCHANGED <<snapVars, shVars, baVars, mmVars, swVars>>

\* AllocatedByteArray(uint64_t size_in) (lines 210-213):
\*   size_ = size_in; data_ = new char[size_+1]
\* The caller has supplied none of the bytes yet.
AllocatedByteArray_Capacity(size_in) ==
  /\ heap_ctor = "none"
  /\ heap_in = <<>>
  /\ heap_ctor' = "capacity"
  /\ heap_in' = [i \in 1..size_in |-> Uninit]
  /\ heap_size_' = size_in
  /\ heap_data_' = [i \in 1..(size_in + 1) |-> Uninit]
  /\ heap_alive' = TRUE
  /\ UNCHANGED heap_deletes
  /\ UNCHANGED <<snapVars, shVars, baVars, mmVars, swVars>>

\* The caller writes byte b at index i through data() (line 37).
HeapWrite(i, b) ==
  /\ heap_alive
  /\ i \in 1..heap_size_
  /\ heap_in' = [heap_in EXCEPT ![i] = b]
  /\ heap_data_' = [heap_data_ EXCEPT ![i] = b]
  /\ UNCHANGED <<heap_ctor, heap_size_, heap_alive, heap_deletes>>
  /\ UNCHANGED <<snapVars, shVars, baVars, mmVars, swVars>>

\* ~AllocatedByteArray() (lines 215-217): delete[] data_
AllocatedByteArray_Dtor ==
  /\ heap_alive
  /\ heap_alive' = FALSE
  /\ DeleteArray
  /\ UNCHANGED <<heap_ctor, heap_in, heap_data_, heap_size_>>
  /\ UNCHANGED <<snapVars, shVars, baVars, mmVars, swVars>>

RestExclusive == NoAllocatedByteArray(<<>>)

(***************************************************************************)
(* The construction of a SharedMmappedByteArray (byte_array.h:142-148),    *)
(* which constructs its Mmap (byte_array.h:101-124).                       *)
(***************************************************************************)
\* new Mmap(filepath, filesize) is entered (lines 101-103).
MmapEntered(filepath, filesize, disk) ==
  /\ mmapAt = "Mmap104"
  /\ filepath_ = filepath
  /\ filesize_ = filesize
  /\ fd_ = -1
  /\ datafile_ = "unset"
  /\ openable = disk
  /\ view_data_ = "nullptr"
  /\ readFrom = "none"

\* lines 104-108: if ((fd_ = open(filepath.c_str(), O_RDONLY)) < 0) { log }
\* A failure is logged; the constructor goes on.
Mmap104 ==
  /\ mmapAt = "Mmap104"
  /\ fd_' = IF filepath_ \in openable THEN 3 ELSE -1
  /\ mmapAt' = "Mmap112"
  /\ UNCHANGED <<filepath_, filesize_, datafile_, openable, view_data_, readFrom>>
  /\ UNCHANGED <<snapVars, shVars, baVars, exVars, swVars>>

\* lines 112-117: datafile_ = mmap(0, filesize, PROT_READ, MAP_SHARED, fd_, 0)
\* A file mapping of an invalid descriptor fails (EBADF), and so does a
\* mapping of length 0 (EINVAL); any other may fail or succeed.
MmapResults ==
  IF fd_ < 0 \/ filesize_ = 0 THEN {"MAP_FAILED"} ELSE {"mapped", "MAP_FAILED"}
Mmap112 ==
  /\ mmapAt = "Mmap112"
  /\ \E r \in MmapResults : datafile_' = r
  /\ mmapAt' = "Mmap118"
  /\ UNCHANGED <<filepath_, filesize_, fd_, openable, view_data_, readFrom>>
  /\ UNCHANGED <<snapVars, shVars, baVars, exVars, swVars>>

\* lines 118-122: if (datafile_ == MAP_FAILED) { log; exit(-1); }
MapFailedTest(fatal) ==
  /\ mmapAt = "Mmap118"
  /\ mmapAt' = IF fatal /\ datafile_ = "MAP_FAILED" THEN "exited" ELSE "Ctor144"
  /\ UNCHANGED <<filepath_, filesize_, fd_, datafile_, openable, view_data_, readFrom>>
  /\ UNCHANGED <<snapVars, shVars, baVars, exVars, swVars>>

\* Mutant of Mmap118: a failed mapping does not end the process.
Mmap118_NoExit == MapFailedTest(FALSE)

Mmap118 == MapFailedTest(TRUE)

\* SharedMmappedByteArray(filepath, filesize), lines 143-147:
\*   mmap_ = shared_ptr<Mmap>(...); data_ = mmap_->datafile_; size_ = 0; ...
Ctor144 ==
  /\ mmapAt = "Ctor144"
  /\ view_data_' = datafile_
  /\ mmapAt' = "constructed"
  /\ UNCHANGED <<filepath_, filesize_, fd_, datafile_, openable, readFrom>>
  /\ UNCHANGED <<snapVars, shVars, baVars, exVars, swVars>>

\* The bytes of the constructed view are read through data_ (lines 37, 162).
ReadView ==
  /\ mmapAt = "constructed"
  /\ readFrom = "none"
  /\ readFrom' = view_data_
  /\ UNCHANGED <<mmapAt, filepath_, filesize_, fd_, datafile_, openable, view_data_>>
  /\ UNCHANGED <<snapVars, shVars, baVars, exVars, swVars>>

RestMmap == MmapEntered("f1", 0, {})

(***************************************************************************)
(* ByteArray::StartsWith (byte_array.h:43-45), on a SimpleByteArray over   *)
(* the caller's bytes (byte_array.h:86-89).                                *)
(***************************************************************************)
NoStartsWith == [called |-> FALSE, substr |-> <<>>, n |-> 0, ret |-> FALSE]

\* SimpleByteArray(const char* data_in, uint64_t size_in):
\*   data_ = data_in; size_ = size_in
SimpleByteArray(data_in, size_in) ==
  /\ simple_data_ = data_in
  /\ simple_size_ = size_in
  /\ startsWith = NoStartsWith

\* An int converted to uint64_t, as the comparison with size_ converts n.
ToUnsigned(n) == n % SizeMod

\* strncmp(a, b, n): the bytes are compared in order, at most n of them; the
\* comparison ends at the first pair that differs, with their difference,
\* or at a pair of zero bytes, with 0.
strncmp(a, b, n) ==
  LET ends == {i \in 1..n : a[i] # b[i] \/ a[i] = 0}
  IN IF ends = {} THEN 0
     ELSE LET i == CHOOSE e \in ends : \A f \in ends : e <= f
          IN a[i] - b[i]

\* bool StartsWith(const char *substr, int n):
\*   return (n <= size_ && strncmp(data_, substr, n) == 0)
StartsWith(substr, n) ==
  /\ startsWith' = [called |-> TRUE, substr |-> substr, n |-> n,
                    ret |-> /\ ToUnsigned(n) <= simple_size_
                            /\ strncmp(simple_data_, substr, ToUnsigned(n)) = 0]
  /\ UNCHANGED <<simple_data_, simple_size_>>
  /\ UNCHANGED <<snapVars, shVars, baVars, exVars, mmVars>>

RestPrefix == SimpleByteArray(<<>>, 0)

(***************************************************************************)
(* Specifications.  Each machine has its initial states; under another     *)
(* machine's specification it rests in one fixed state.                    *)
(***************************************************************************)
\* Snapshot::Snapshot (lines 21-35): the members as constructed.  The live
\* engine made the Snapshot over its current files and registered its id.
SnapshotCtor(fs, id) ==
  /\ is_closed_ = FALSE
  /\ mutex_close_ = FALSE
  /\ snapshot_id_ = id
  /\ F0 = 1..Len(fs)
  /\ fidsDeletes = 0
  /\ seDeletes = 0
  /\ files = fs
  /\ liveFiles = 1..Len(fs)
  /\ onDisk = 1..Len(fs)
  /\ registry = [i \in SnapshotIds |-> IF i = id THEN 1..Len(fs) ELSE {}]
  /\ released = <<>>
  /\ at = [p \in Positions |-> IF p = Idle THEN NumThreads ELSE 0]
  /\ last = [op |-> "none", key |-> "none", ret |-> NoRet, open |-> TRUE]
  /\ iterators = {}
  /\ dtorStarted = FALSE
  /\ closeReturns = "none"

InitSnapshot ==
  \E fs \in InitFiles : SnapshotCtor(fs, "s1")
RestSnapshot == SnapshotCtor(<<"ka">>, "s1")

RestShared ==
  /\ shKind = "mmap"
  /\ holder = [v \in Views |-> "none"]
  /\ use_count = 0
  /\ munmaps = 0
  /\ closes = 0
  /\ arrayDeletes = 0

RestByteArray == ViewCtor("mmap", <<>>, <<>>, <<>>, 0, 0, 0)

RestMore == RestExclusive /\ RestMmap /\ RestPrefix

NextSnapshot ==
  \/ Open
  \/ \E k \in Keys : Put(k)
  \/ \E k \in Keys : PutChunk(k)
  \/ \E k \in Keys : Remove(k)
  \/ NewSnapshot
  \/ NewIterator
  \/ \E k \in Keys : GetCall(k)
  \/ \E k \in Keys : GetReturn(k)
  \/ CloseCall
  \/ Destructor
  \/ Close47
  \/ Close50
  \/ Close51
  \/ Close52
  \/ \E k \in Keys : LiveWrite(k)
  \/ \E f \in liveFiles : LiveCompact(f)
  \/ \E f \in onDisk : LiveReclaim(f)

NextShared ==
  \/ \E v, w \in Views : CopyView(v, w)
  \/ \E v \in Views : DropRef(v)
  \/ \E v \in Views : RunDeleter(v)

NextView ==
  \/ \E k \in 0..Len(region) : \E n \in 0..(Len(region) - k) : SetOffset(k, n)
  \/ \E a \in Adds : AddSize(a)

\* The read path of the engine sets a view up, then streams the value out.
NextChunk ==
  \/ out = NoOut /\ SetOffset(0, IF stored = <<>> THEN Len(region)
                                  ELSE Len(Flatten(original)))
  \/ \E c \in BOOLEAN : SetCompression(c)
  \/ \E sz \in {0, Len(Flatten(stored))} : SetSizeCompressed(sz)
  \/ SetCRC32(CrcOfFrames(CrcReset, original))
  \/ data_chunk

StartSnapshot == InitSnapshot /\ RestShared /\ RestByteArray /\ RestMore
SpecSnapshot == StartSnapshot /\ [][NextSnapshot]_vars
StartShared == (\E kind \in {"mmap", "heap"} : SharedCtor(kind)) /\ RestSnapshot /\ RestByteArray /\ RestMore
SpecShared == StartShared /\ [][NextShared]_vars
\* A view just constructed over a mapping or a buffer of MaxRegion bytes.
StartView ==
  /\ \E kind \in {"mmap", "heap"} : \E bytes \in [1..MaxRegion -> Bytes] :
       \E g \in Garbage : ViewCtor(kind, bytes, <<>>, <<>>, g, g, g)
  /\ RestSnapshot
  /\ RestShared
  /\ RestMore
SpecView == StartView /\ [][NextView]_vars

\* The frames a value may be made of, and the values of up to MaxFrames frames.
Frames == UNION {[1..n -> Bytes] : n \in FrameLens}
Values == UNION {[1..k -> Frames] : k \in 1..MaxFrames}
\* The values that differ from `value` in exactly one byte.
OneByteOff(value) ==
  {w \in Values :
     /\ Len(w) = Len(value)
     /\ \A i \in 1..Len(value) : Len(w[i]) = Len(value[i])
     /\ Cardinality({<<i, j>> \in (1..Len(value)) \X FrameLens :
                       j <= Len(value[i]) /\ w[i][j] # value[i][j]}) = 1}

\* A view just constructed over a mapping that holds either a raw value, or
\* the frames of a compressed value: as they were written, or with one byte
\* changed since.
StartChunk ==
  /\ \E g \in Garbage :
       \/ \E bytes \in [1..MaxRegion -> Bytes] : ViewCtor("mmap", bytes, <<>>, <<>>, g, g, g)
       \/ \E written \in Values : \E held \in {written} \cup OneByteOff(written) :
            ViewCtor("mmap", Flatten(held), held, written, g, g, g)
  /\ RestSnapshot
  /\ RestShared
  /\ RestMore
SpecChunk == StartChunk /\ [][NextChunk]_vars
\* A caller that streams a value keeps calling data_chunk().
SpecChunkFair == SpecChunk /\ WF_vars(data_chunk)

(***************************************************************************)
(* Claims about the Snapshot, checked under SpecSnapshot.                  *)
(***************************************************************************)
WriteOps == {"Put", "PutChunk", "Remove"}
NotSupported == Ret(StatusIOError("Not supported"), NoValue)
\* The entries (key, version) an Iterator can observe: those of the files its
\* file-id vector names, read from disk.
IterFiles(it) == IF it.fileids = "fileids_iterator_" THEN F0 ELSE liveFiles
IterEntries(it) == {<<files[f], f>> : f \in IterFiles(it) \cap onDisk}

\* C1: whatever Close() calls and destructor run, in any interleaving,
\* ReleaseSnapshot is called at most once and only with snapshot_id_, the
\* frozen engine and the file-id vector are deleted at most once, and once
\* any Close() has returned each of the three has happened exactly once.
C1_CloseOnce ==
  /\ Len(released) <= 1
  /\ fidsDeletes <= 1
  /\ seDeletes <= 1
  /\ \A i \in 1..Len(released) : released[i] = snapshot_id_
  /\ closeReturns # "none" =>
       released = <<snapshot_id_>> /\ fidsDeletes = 1 /\ seDeletes = 1

\* Several Close() calls and the destructor have all returned.
C1_Witness ==
  /\ closeReturns = "several"
  /\ dtorStarted
  /\ at[Idle] = NumThreads

\* C2: an Iterator made while the Snapshot is Open is built over the frozen
\* engine and the captured file-id vector, and while the Snapshot is Open it
\* observes exactly the entries the disk held at creation, whatever the live
\* engine has written or compacted since.
C2_Isolation ==
  \A it \in iterators :
    it.open =>
      /\ it.se = "se_readonly_"
      /\ it.fileids = "fileids_iterator_"
      /\ ~is_closed_ =>
           \E fs \in InitFiles :
             /\ Len(fs) <= Len(files)
             /\ SubSeq(files, 1, Len(fs)) = fs
             /\ IterEntries(it) = {<<fs[f], f>> : f \in 1..Len(fs)}

\* An Iterator of an Open Snapshot, after the live engine wrote a new file
\* and compacted away one of the captured files.
C2_Witness ==
  /\ ~is_closed_
  /\ \E it \in iterators : it.open
  /\ Len(files) > Cardinality(F0)
  /\ \E f \in F0 : f \notin liveFiles

\* C3: Put, PutChunk and Remove return a status of kind UnsupportedOperation.
C3_UnsupportedOperation ==
  last.op \in WriteOps => last.ret.st.code = "UnsupportedOperation"

\* C4: a Put, PutChunk or Remove step changes nothing of the Snapshot, of the
\* live engine or of the disk, and always returns the same result.
C4_WritesChangeNothing ==
  [][(\E k \in Keys : Put(k) \/ PutChunk(k) \/ Remove(k))
       => /\ UNCHANGED snapState
          /\ last'.ret = NotSupported]_vars

\* A write was attempted after the live engine had moved on.
C4_Witness ==
  /\ last.op \in WriteOps
  /\ Len(files) > Cardinality(F0)
  /\ ~is_closed_

\* C5: a Get that returns while the Snapshot is Open returns what the frozen
\* engine returned: OK with the newest captured version of the key, NotFound
\* when no captured file holds the key, or the engine's error unchanged.
C5_GetDelegates ==
  (last.op = "Get" /\ last.open) =>
    /\ last.ret.engine = "se_readonly_"
    /\ last.ret.st = last.ret.seSt
    /\ last.ret.val = last.ret.seVal
    /\ last.ret.st \in {StatusOK, StatusNotFound, StatusIOError("engine")}
    /\ IsOK(last.ret.st) =>
         /\ last.ret.val \in F0
         /\ files[last.ret.val] = last.key
         /\ \A g \in F0 : files[g] = last.key => g <= last.ret.val
    /\ IsNotFound(last.ret.st) => \A f \in F0 : files[f] # last.key

\* Get of a key the live engine wrote after creation: NotFound.
C5_Witness ==
  /\ last.op = "Get"
  /\ last.open
  /\ IsNotFound(last.ret.st)
  /\ \E f \in liveFiles : files[f] = last.key

\* C6: while the Snapshot is Open its id is registered and every captured
\* file is pinned and on disk; ReleaseSnapshot has been called only if the
\* Snapshot is Closed; once a Close() has returned the id is unregistered
\* and pins nothing.
C6_RegisteredWhileOpen ==
  /\ ~is_closed_ =>
       /\ snapshot_id_ \in DOMAIN registry
       /\ \A f \in F0 : Pinned(f) /\ f \in onDisk
  /\ released # <<>> => is_closed_
  /\ closeReturns # "none" =>
       /\ snapshot_id_ \notin DOMAIN registry
       /\ \A f \in F0 : ~Pinned(f)

\* After Close() returned, a captured file has been reclaimed.
C6_Witness ==
  /\ closeReturns # "none"
  /\ \E f \in F0 : f \notin onDisk

\* C12: the Snapshot is Open when constructed; once Closed it stays Closed
\* whatever is called; it is Closed once any Close() (a client's or the
\* destructor's) has returned, and only a Close() closes it; Open() returns
\* OK in every state and changes nothing.
C12_Lifecycle ==
  /\ ~is_closed_
  /\ [](closeReturns # "none" => is_closed_)
  /\ [][/\ is_closed_ => is_closed_'
        /\ is_closed_' # is_closed_ => Close47
        /\ Open => /\ UNCHANGED snapState
                   /\ last'.ret = Ret(StatusOK, NoValue)]_vars

\* Open() was called on a Closed snapshot, after a Close() had returned.
C12_Witness ==
  /\ last.op = "Open"
  /\ IsOK(last.ret.st)
  /\ is_closed_
  /\ closeReturns # "none"

\* C18: no thread is inside the frozen engine's Get once Close() has deleted
\* the frozen engine, whether the Get was entered before the delete or after.
C18_NoUseAfterDelete ==
  seDeletes > 0 => \A k \in Keys : at[InGet(k)] = 0

\* C19: the frozen engine and the file-id vector an Iterator was built from
\* have not been deleted, whether the Iterator was made before Close() or
\* after.
C19_IteratorsLive ==
  \A it \in iterators :
    /\ it.se = "se_readonly_" => seDeletes = 0
    /\ it.fileids = "fileids_iterator_" => fidsDeletes = 0

(***************************************************************************)
(* Claims about shared ownership, checked under SpecShared.                *)
(***************************************************************************)
Releases == IF shKind = "mmap" THEN munmaps ELSE arrayDeletes
Destroyed(v) == holder[v] \in {"released", "dead"}

\* C7: however the views sharing one mapping or heap buffer are destroyed,
\* the resource is released at most once, by its own release only (munmap and
\* close for a mapping, delete[] for a buffer), never while a holder is
\* alive, and it has been released once every holder is destroyed.
C7_ReleasedOnce ==
  /\ Releases <= 1
  /\ closes = munmaps
  /\ shKind = "mmap" => arrayDeletes = 0
  /\ shKind = "heap" => munmaps = 0
  /\ Releases = 1 => \A v \in Views : holder[v] # "alive"
  /\ (\A v \in Views : holder[v] = "none" \/ Destroyed(v)) => Releases = 1

\* Three views were destroyed; the one that released the resource is the
\* view that was constructed first.
C7_Witness ==
  /\ holder[1] = "released"
  /\ Cardinality({v \in Views : holder[v] = "dead"}) >= 2
  /\ Releases = 1

(***************************************************************************)
(* Claims about SetOffset and AddSize, checked under SpecView.             *)
(***************************************************************************)
\* The bytes of the view: size_ bytes from data_ on.
ViewBytes == [i \in 1..size_ |-> region[data_ + i]]

\* C10: after SetOffset(k, n), whatever SetOffset and AddSize calls came
\* before, the view starts k bytes into the mapping or buffer, size() is n
\* and its bytes are the region's bytes [k, k+n); AddSize calls that follow
\* leave the start at k and make the size n plus what they added (in the
\* arithmetic of uint64_t).
C10_SetOffsetView ==
  lastSet.set =>
    /\ data_ = lastSet.k
    /\ size_ = (lastSet.n + lastSet.added) % SizeMod
    /\ lastSet.count = 0 =>
         /\ size_ = lastSet.n
         /\ ViewBytes = SubSeq(region, lastSet.k + 1, lastSet.k + lastSet.n)

\* SetOffset(1, 1), then AddSize(1): the view is bytes [1, 3) of the region.
C10_Witness ==
  /\ lastSet.set
  /\ lastSet.k = 1
  /\ lastSet.n = 1
  /\ lastSet.count = 1
  /\ lastSet.added = 1
  /\ size_ = 2
  /\ offset_ = 1

(***************************************************************************)
(* Claims about data_chunk(), checked under SpecChunk.                     *)
(***************************************************************************)
\* The view was set up for a compressed value: its compressed size and the
\* checksum stored with it when it was written.
Prepared ==
  /\ stored # <<>>
  /\ size_compressed_ = Len(Flatten(stored))
  /\ crc32_value_ = CrcOfFrames(CrcReset, original)
\* The last data_chunk() found the codec at the end of the value.
Completed == out.cause \in {"done", "mismatch"}

\* C8: a decode of a compressed value ends in success exactly when the
\* running checksum equals the stored one: in success when the mapping
\* holds the value as written, in ChecksumError when one byte differs.
C8_ChecksumDecides ==
  (Prepared /\ Completed) =>
    /\ IsDone(out.st) <=> crc32_ = crc32_value_
    /\ stored = original => IsDone(out.st)
    /\ stored # original => out.st.code = "ChecksumError"

\* C9: a checksum mismatch is reported with a status of kind ChecksumError,
\* which is not the kind of the status of a codec or I/O fault.
C9_DistinctStatuses ==
  out.cause = "mismatch" =>
    /\ out.st.code = "ChecksumError"
    /\ out.st.code # CodecFault.st.code

\* C14: SetCompression, SetSizeCompressed, SetCRC32 and data_chunk() leave
\* size() as it is, for a raw value and for a compressed one; only SetOffset
\* and AddSize change it, so size() stays the length the view was set to.
C14_SizeUnchanged ==
  /\ [](lastSet.set => size_ = (lastSet.n + lastSet.added) % SizeMod)
  /\ [][/\ (\/ \E c \in BOOLEAN : SetCompression(c)
            \/ \E sz \in 0..(MaxFrames * MaxLen) : SetSizeCompressed(sz)
            \/ \E c \in 0..(CrcMod - 1) : SetCRC32(c)
            \/ data_chunk) => size_' = size_
        /\ size_' # size_ =>
             \/ \E k, n \in 0..(MaxFrames * MaxLen) : SetOffset(k, n)
             \/ \E a \in Adds : AddSize(a)]_vars

\* A compressed value was streamed to its end; size() is its length still.
C14_Witness ==
  /\ is_compressed_
  /\ Prepared
  /\ out.cause = "done"
  /\ lastSet.set
  /\ size_ = Len(Flatten(original))
  /\ compressor_ = MaxFrames

\* The view was set up for a compressed value that the mapping holds as it
\* was written.
Intact == is_compressed_ /\ Prepared /\ stored = original
\* The decoded bytes of the first n frames.
DecodedUpTo(n) == Flatten([i \in 1..n |-> Decode(stored[i])])

\* C15: on a compressed value of k frames whose checksum matches, each
\* data_chunk() that returns OK hands out the next decoded frame, in order;
\* a call returns Done exactly when all k frames have been handed out, so OK
\* is returned k times and the chunks handed out make up the whole value;
\* no call reports a checksum mismatch; and on every value the calls end in
\* Done or in an error.
C15_Streaming ==
  /\ [](Intact /\ out # NoOut =>
         /\ compressor_ <= Len(stored)
         /\ delivered = DecodedUpTo(compressor_)
         /\ out.cause # "mismatch"
         /\ IsOK(out.st) => out.bytes = Decode(stored[compressor_])
         /\ IsDone(out.st) => /\ compressor_ = Len(stored)
                              /\ delivered = Decode(Flatten(original)))
  /\ [][Intact /\ data_chunk =>
         /\ IsOK(out'.st) => compressor_ < Len(stored) /\ compressor_' = compressor_ + 1
         /\ ~IsOK(out'.st) => compressor_' = compressor_
         /\ IsDone(out'.st) <=> compressor_ = Len(stored)]_vars
  /\ <>(out # NoOut /\ ~IsOK(out.st))

\* A value of MaxFrames frames was streamed: MaxFrames calls returned OK,
\* the next returned Done.
C15_Witness ==
  /\ Intact
  /\ Len(stored) = MaxFrames
  /\ compressor_ = MaxFrames
  /\ out.cause = "done"
  /\ IsDone(out.st)
  /\ delivered = Decode(Flatten(original))

\* C16: data_chunk() on a view whose compressed flag is false returns Done
\* at once, with data_ and size() and without calling the codec or the
\* checksum; on a view whose compressed flag is true it never returns the
\* mapped bytes themselves.
C16_RawWhenUncompressed ==
  out # NoOut =>
    /\ ~is_compressed_ =>
         /\ out.st = StatusDone
         /\ out.cause = "raw"
         /\ out.where = "region" /\ out.ptr = data_ /\ out.size = size_
         /\ compressor_ = 0 /\ crc32_ = CrcReset /\ fed = <<>>
    /\ is_compressed_ => out.cause # "raw"

\* The frames the codec has produced so far, in decode order.
Produced == SubSeq(stored, 1, compressor_)

\* C17: the running checksum is at every moment the checksum, from the reset
\* state, of the frames the codec has produced, each streamed once and in
\* order, a failed call adding nothing; when data_chunk() compares it with
\* the stored checksum the codec has consumed the whole value, so every
\* frame, the last included, is part of the comparison.
C17_ChecksumCoversAllFrames ==
  /\ fed = Produced
  /\ crc32_ = CrcOfFrames(CrcReset, Produced)
  /\ Completed =>
       /\ Consumed = size_compressed_
       /\ Prepared => fed = stored /\ crc32_ = CrcOfFrames(CrcReset, stored)

\* The comparison found a mismatch after all MaxFrames frames were streamed.
C17_Witness ==
  /\ Prepared
  /\ out.cause = "mismatch"
  /\ Len(fed) = MaxFrames
  /\ stored # original

(***************************************************************************)
(* Claims about AllocatedByteArray, checked under SpecExclusive.           *)
(***************************************************************************)
NextExclusive ==
  \/ AllocatedByteArray_Copy(heap_in, Len(heap_in))
  \/ \E n \in 0..MaxLen : AllocatedByteArray_Capacity(n)
  \/ \E i \in 1..MaxLen : \E b \in Bytes : HeapWrite(i, b)
  \/ AllocatedByteArray_Dtor

StartExclusive ==
  /\ \E b \in ByteSeqs : NoAllocatedByteArray(b)
  /\ RestSnapshot
  /\ RestShared
  /\ RestByteArray
  /\ RestMmap
  /\ RestPrefix
SpecExclusive == StartExclusive /\ [][NextExclusive]_vars

\* The first size_ bytes of the array.
HeapBytes == SubSeq(heap_data_, 1, heap_size_)

\* C11: an AllocatedByteArray built as a copy of the caller's bytes has
\* size() equal to their number and holds those very bytes, zero bytes
\* included; the array is released exactly once, by the destructor.
C11_CopyIsIdentical ==
  /\ heap_ctor = "copy" =>
       /\ heap_size_ = Len(heap_in)
       /\ HeapBytes = heap_in
  /\ heap_deletes = IF heap_ctor # "none" /\ ~heap_alive THEN 1 ELSE 0

(***************************************************************************)
(* Claims about the construction of a mapping, checked under SpecMmap.     *)
(***************************************************************************)
NextMmap ==
  \/ Mmap104
  \/ Mmap112
  \/ Mmap118
  \/ Ctor144
  \/ ReadView

StartMmap ==
  /\ \E path \in Paths : \E size \in 0..MaxRegion : \E disk \in SUBSET Paths :
       MmapEntered(path, size, disk)
  /\ RestSnapshot
  /\ RestShared
  /\ RestByteArray
  /\ RestExclusive
  /\ RestPrefix
SpecMmap == StartMmap /\ [][NextMmap]_vars

\* The constructor of Mmap has returned.
MmapReturned == mmapAt \in {"Ctor144", "constructed"}

\* C13: a failed open() or a failed mmap() ends the process inside the
\* constructor of Mmap: the constructor returns only with the file opened
\* and mapped, and a view's data_ is set from, and its bytes are read
\* from, an established mapping only.
C13_FatalOnFailure ==
  /\ MmapReturned => fd_ >= 0 /\ filepath_ \in openable /\ datafile_ = "mapped"
  /\ (mmapAt # "Mmap104" /\ fd_ < 0) => mmapAt \in {"Mmap112", "Mmap118", "exited"}
  /\ datafile_ = "MAP_FAILED" => mmapAt \in {"Mmap118", "exited"}
  /\ view_data_ \in {"nullptr", "mapped"}
  /\ readFrom \in {"none", "mapped"}

\* open() failed, and the process has exited.
C13_Witness ==
  /\ mmapAt = "exited"
  /\ filepath_ \notin openable
  /\ fd_ < 0

(***************************************************************************)
(* Claims about StartsWith, checked under SpecPrefix.                      *)
(***************************************************************************)
\* substr holds at least n bytes.
NextPrefix ==
  \E substr \in ByteSeqs : \E n \in -1..Len(substr) : StartsWith(substr, n)

StartPrefix ==
  /\ \E bytes \in ByteSeqs : SimpleByteArray(bytes, Len(bytes))
  /\ RestSnapshot
  /\ RestShared
  /\ RestByteArray
  /\ RestExclusive
  /\ RestMmap
SpecPrefix == StartPrefix /\ [][NextPrefix]_vars

\* C20: for n >= 0, StartsWith(s, n) is true exactly when n <= size() and
\* the first n bytes of the view are the first n bytes of s, zero bytes
\* included.
C20_PrefixEquality ==
  (startsWith.called /\ startsWith.n >= 0) =>
    (startsWith.ret <=>
       /\ startsWith.n <= simple_size_
       /\ SubSeq(simple_data_, 1, startsWith.n) = SubSeq(startsWith.substr, 1, startsWith.n))

====
